---- MODULE Spec2Model ----
(***************************************************************************)
(* Resource planner of infra/crs/render_compose.py: the cpu and memory     *)
(* codecs, get_crs_for_worker (classification of the CRS of a worker,      *)
(* validation of the explicit claims, auto-division of what remains) and   *)
(* the per-worker loop of main that reports and writes one compose file    *)
(* per worker.                                                             *)
(*                                                                         *)
(* A Python str is a sequence of one-character strings, a dict is a        *)
(* function whose DOMAIN is its key set, an insertion-ordered dict of      *)
(* named entries is a sequence of [name, cfg] records.                     *)
(***************************************************************************)
EXTENDS Integers, Sequences, FiniteSets, TLC

(***************************************************************************)
(* Bounds of the model.                                                    *)
(***************************************************************************)
\* number of CRS entries of config-resource.yaml
NumCrs == 3
\* the worker pools and the explicit claims name cores around 0..MaxCore
MaxCore == 3

(***************************************************************************)
(* Python built-ins on strings and integers.                               *)
(***************************************************************************)
DigitChars == <<"0", "1", "2", "3", "4", "5", "6", "7", "8", "9">>

IsDigit(c) == \E i \in 1..10 : DigitChars[i] = c

DigitVal(c) == (CHOOSE i \in 1..10 : DigitChars[i] = c) - 1

RECURSIVE StrOfNat(_)
StrOfNat(n) ==
  IF n < 10 THEN <<DigitChars[n + 1]>>
  ELSE StrOfNat(n \div 10) \o <<DigitChars[(n % 10) + 1]>>

\* str(n) for an int n
PyStr(n) == IF n < 0 THEN <<"-">> \o StrOfNat(0 - n) ELSE StrOfNat(n)

RECURSIVE NatOfDigits(_)
NatOfDigits(s) ==
  IF s = <<>> THEN 0
  ELSE 10 * NatOfDigits(SubSeq(s, 1, Len(s) - 1)) + DigitVal(s[Len(s)])

RECURSIVE LStrip(_)
LStrip(s) == IF s # <<>> /\ s[1] = " " THEN LStrip(Tail(s)) ELSE s

RECURSIVE RStrip(_)
RStrip(s) ==
  IF s # <<>> /\ s[Len(s)] = " " THEN RStrip(SubSeq(s, 1, Len(s) - 1)) ELSE s

\* str.strip()
Strip(s) == RStrip(LStrip(s))

UpperChar(c) ==
  CASE c = "g" -> "G"
    [] c = "m" -> "M"
    [] c = "k" -> "K"
    [] c = "x" -> "X"
    [] OTHER -> c

\* str.upper(), on the alphabet of the specifications of the model
Upper(s) == [i \in 1..Len(s) |-> UpperChar(s[i])]

\* int(s): surrounding blanks and one sign are accepted, then digits only;
\* anything else raises ValueError (ok = FALSE)
PyInt(s) ==
  LET t == Strip(s)
      signed == t # <<>> /\ t[1] \in {"-", "+"}
      body == IF signed THEN Tail(t) ELSE t
  IN  IF body = <<>> \/ \E i \in 1..Len(body) : ~IsDigit(body[i])
      THEN [ok |-> FALSE, val |-> 0]
      ELSE [ok |-> TRUE,
            val |-> IF signed /\ t[1] = "-" THEN 0 - NatOfDigits(body)
                    ELSE NatOfDigits(body)]

\* sep.join(parts)
RECURSIVE Join(_, _)
Join(sep, parts) ==
  IF parts = <<>> THEN <<>>
  ELSE IF Len(parts) = 1 THEN parts[1]
  ELSE parts[1] \o sep \o Join(sep, Tail(parts))

\* list(range(a, b + 1))
RangeList(a, b) == [i \in 1..(IF b >= a THEN b - a + 1 ELSE 0) |-> a + i - 1]

\* set(list)
ToSet(l) == {l[i] : i \in 1..Len(l)}

\* sorted(set)
RECURSIVE Sorted(_)
Sorted(S) ==
  IF S = {} THEN <<>>
  ELSE LET m == CHOOSE x \in S : \A y \in S : x <= y
       IN  <<m>> \o Sorted(S \ {m})

\* dict.get(key, default)
Get(d, key, default) == IF key \in DOMAIN d THEN d[key] ELSE default

EmptyDict == [k \in {} |-> 0]

(***************************************************************************)
(* The codecs.                                                             *)
(***************************************************************************)
\* parse_cpu_range: 'm-n' is split at its first '-', anything else is one
\* int; a ValueError of int() leaves the function (ok = FALSE)
parse_cpu_range(cpu_spec) ==
  IF \E i \in 1..Len(cpu_spec) : cpu_spec[i] = "-"
  THEN LET k == CHOOSE i \in 1..Len(cpu_spec) :
                  /\ cpu_spec[i] = "-"
                  /\ \A j \in 1..(i - 1) : cpu_spec[j] # "-"
           start == PyInt(SubSeq(cpu_spec, 1, k - 1))
           end == PyInt(SubSeq(cpu_spec, k + 1, Len(cpu_spec)))
       IN  IF start.ok /\ end.ok
           THEN [ok |-> TRUE, val |-> RangeList(start.val, end.val)]
           ELSE [ok |-> FALSE, val |-> <<>>]
  ELSE LET one == PyInt(cpu_spec)
       IN  IF one.ok THEN [ok |-> TRUE, val |-> <<one.val>>]
           ELSE [ok |-> FALSE, val |-> <<>>]

\* format_cpu_list
format_cpu_list(cpu_list) ==
  Join(<<",">>, [i \in 1..Len(cpu_list) |-> PyStr(cpu_list[i])])

\* parse_memory_mb that takes a G for a thousand MB
parse_memory_mb_Decimal(memory_spec) ==
  LET s == Upper(Strip(memory_spec))
      prefix == PyInt(SubSeq(s, 1, Len(s) - 1))
  IN  IF s # <<>> /\ s[Len(s)] = "G"
      THEN [ok |-> prefix.ok, val |-> prefix.val * 1000]
      ELSE IF s # <<>> /\ s[Len(s)] = "M"
      THEN prefix
      ELSE PyInt(s)

\* parse_memory_mb
parse_memory_mb(memory_spec) ==
  LET s == Upper(Strip(memory_spec))
      prefix == PyInt(SubSeq(s, 1, Len(s) - 1))
  IN  IF s # <<>> /\ s[Len(s)] = "G"
      THEN [ok |-> prefix.ok, val |-> prefix.val * 1024]
      ELSE IF s # <<>> /\ s[Len(s)] = "M"
      THEN prefix
      ELSE PyInt(s)

\* format_memory
format_memory(memory_mb) ==
  IF memory_mb >= 1024 /\ memory_mb % 1024 = 0
  THEN PyStr(memory_mb \div 1024) \o <<"G">>
  ELSE PyStr(memory_mb) \o <<"M">>

(***************************************************************************)
(* State: the loaded configuration, main's position and loop index, the    *)
(* locals of the running get_crs_for_worker call, and what the run has     *)
(* produced (the compose files written, the counters, the exit status).    *)
(***************************************************************************)
VARIABLES
  resource_config,        \* config['resource']: [workers, crs]
  pc,                     \* "main", "loop", "validate", "returned", "exit"
  widx,                   \* position of main's loop in workers.keys()
  worker_all_cpus,        \* get_crs_for_worker: set of the worker's cores
  worker_total_memory_mb, \* get_crs_for_worker: the worker's memory
  explicit_crs,           \* get_crs_for_worker: list of (crs_name, resources)
  auto_divide_crs,        \* get_crs_for_worker: list of crs_name
  eidx,                   \* position of the loop over explicit_crs
  used_cpus,
  used_memory_mb,
  result,                 \* get_crs_for_worker: the list being built / returned
  files,                  \* compose-<worker>.yaml written so far, in order
  total_crs_count,
  rc,                     \* exit status of the process, -1 while running
  error,                  \* what ended the run, "none" while it has not ended
  test_pc,                \* position of a codec round trip, "idle" in a run of main
  original,               \* round trip: the value the codecs are applied to
  parsed,                 \* round trip: parse_cpu_range(original)
  formatted,              \* round trip: the formatter's text
  reparsed                \* round trip: the text parsed again

vars == <<resource_config, pc, widx, worker_all_cpus, worker_total_memory_mb,
          explicit_crs, auto_divide_crs, eidx, used_cpus, used_memory_mb,
          result, files, total_crs_count, rc, error,
          test_pc, original, parsed, formatted, reparsed>>

\* the variables of a codec round trip, which a run of main never touches
harness == <<test_pc, original, parsed, formatted, reparsed>>

locals == <<worker_all_cpus, worker_total_memory_mb, explicit_crs,
            auto_divide_crs, eidx, used_cpus, used_memory_mb, result>>

outputs == <<files, total_crs_count>>

\* a default pool of two cores
DefaultCpuset_TwoCores == <<"0", "-", "1">>

\* a default budget of 2G
DefaultMemory_2G == <<"2", "G">>

\* the default specifications of get_crs_for_worker
DefaultCpuset == <<"0", "-", "3">>
DefaultMemory == <<"4", "G">>

\* minimum memory of an auto-divided CRS, in MB
MinAutoMemoryMB == 512

workers == resource_config.workers
crs_configs == resource_config.crs
worker_name == workers[widx].name

(***************************************************************************)
(* get_crs_for_worker, lines 149-171: which CRS run on the worker, and     *)
(* how each of them states its resources.                                  *)
(***************************************************************************)
\* "skip", "per_worker", "global" or "auto" for one entry of crs_configs
\* classification that does not look at the workers list of the CRS
CrsClass_NoFilter(wname, crs_config) ==
  LET resources == Get(crs_config, "resources", EmptyDict)
  IN  IF wname \in DOMAIN resources THEN "per_worker"
      ELSE IF "cpuset" \in DOMAIN resources /\ wname \notin DOMAIN resources THEN "global"
      ELSE "auto"

\* classification that knows per-worker entries only: directly defined
\* fields never make a claim
CrsClass_NoGlobal(wname, crs_config) ==
  LET crs_workers == Get(crs_config, "workers", <<>>)
      resources == Get(crs_config, "resources", EmptyDict)
  IN  IF wname \notin ToSet(crs_workers) THEN "skip"
      ELSE IF wname \in DOMAIN resources THEN "per_worker"
      ELSE "auto"

\* classification that looks at the directly defined fields before the
\* per-worker entry
CrsClass_DirectFirst(wname, crs_config) ==
  LET crs_workers == Get(crs_config, "workers", <<>>)
      resources == Get(crs_config, "resources", EmptyDict)
  IN  IF wname \notin ToSet(crs_workers) THEN "skip"
      ELSE IF "cpuset" \in DOMAIN resources THEN "global"
      ELSE IF wname \in DOMAIN resources THEN "per_worker"
      ELSE "auto"

CrsClass(wname, crs_config) ==
  LET crs_workers == Get(crs_config, "workers", <<>>)
      resources == Get(crs_config, "resources", EmptyDict)
  IN  IF wname \notin ToSet(crs_workers) THEN "skip"
      ELSE IF wname \in DOMAIN resources THEN "per_worker"
      ELSE IF "cpuset" \in DOMAIN resources /\ wname \notin DOMAIN resources
           THEN "global"
      ELSE "auto"

RECURSIVE ExplicitCrs(_, _)
ExplicitCrs(wname, entries) ==
  IF entries = <<>> THEN <<>>
  ELSE LET e == entries[1]
           class == CrsClass(wname, e.cfg)
           rest == ExplicitCrs(wname, Tail(entries))
       IN  IF class = "per_worker"
           THEN <<[name |-> e.name, resources |-> e.cfg["resources"][wname]]>> \o rest
           ELSE IF class = "global"
           THEN <<[name |-> e.name, resources |-> e.cfg["resources"]]>> \o rest
           ELSE rest

RECURSIVE AutoDivideCrs(_, _)
AutoDivideCrs(wname, entries) ==
  IF entries = <<>> THEN <<>>
  ELSE LET e == entries[1]
           rest == AutoDivideCrs(wname, Tail(entries))
       IN  IF CrsClass(wname, e.cfg) = "auto" THEN <<e.name>> \o rest ELSE rest

(***************************************************************************)
(* get_crs_for_worker, lines 190-202: the two checks of an explicit claim. *)
(***************************************************************************)
\* ClaimCheck without the conflict check of lines 197-202
ClaimCheck_NoConflict(crs_cpus_set, all_cpus, used) ==
  IF ~(crs_cpus_set \subseteq all_cpus) THEN "OutOfRange" ELSE "ok"

\* ClaimCheck without the range check of lines 190-195
ClaimCheck_NoRange(crs_cpus_set, all_cpus, used) ==
  IF (used \cap crs_cpus_set) # {} THEN "Conflict" ELSE "ok"

\* ClaimCheck that looks for a conflict before it looks at the pool
ClaimCheck_ConflictFirst(crs_cpus_set, all_cpus, used) ==
  IF (used \cap crs_cpus_set) # {} THEN "Conflict"
  ELSE IF ~(crs_cpus_set \subseteq all_cpus) THEN "OutOfRange"
  ELSE "ok"

ClaimCheck(crs_cpus_set, all_cpus, used) ==
  IF ~(crs_cpus_set \subseteq all_cpus) THEN "OutOfRange"
  ELSE IF (used \cap crs_cpus_set) # {} THEN "Conflict"
  ELSE "ok"

\* lines 207-212: the record of an explicit claim
ExplicitRecord(crs_name, crs_cpus_list, crs_memory_mb) ==
  [name |-> crs_name,
   cpus |-> format_cpu_list(crs_cpus_list),
   memory_limit |-> format_memory(crs_memory_mb),
   suffix |-> "runner"]

(***************************************************************************)
(* get_crs_for_worker, lines 217-262: auto-division.                       *)
(***************************************************************************)
\* lines 217-218: what the explicit claims leave
RemainingCpus(all_cpus, used) == Sorted(all_cpus \ used)

\* RemainingMemory that forgets what the explicit claims took
RemainingMemory_IgnoreUsed(total_memory_mb, used_mb) == total_memory_mb

RemainingMemory(total_memory_mb, used_mb) == total_memory_mb - used_mb

\* lines 222-234: the two preconditions
\* AutoCheck without the memory check of lines 229-234
AutoCheck_NoMemory(remaining_cpus, remaining_memory_mb, num_auto) ==
  IF Len(remaining_cpus) < num_auto THEN "InsufficientCpus" ELSE "ok"

\* AutoCheck that also refuses a remainder of exactly the minimum
AutoCheck_Strict(remaining_cpus, remaining_memory_mb, num_auto) ==
  IF Len(remaining_cpus) < num_auto THEN "InsufficientCpus"
  ELSE IF remaining_memory_mb <= num_auto * 512 THEN "InsufficientMemory"
  ELSE "ok"

AutoCheck(remaining_cpus, remaining_memory_mb, num_auto) ==
  IF Len(remaining_cpus) < num_auto THEN "InsufficientCpus"
  ELSE IF remaining_memory_mb < num_auto * MinAutoMemoryMB THEN "InsufficientMemory"
  ELSE "ok"

\* lines 237, 242-248: the cores of the CRS at position idx (from 0)
\* AutoCpus whose last CRS takes an equal slice and not the remainder
AutoCpus_NoRemainder(remaining_cpus, num_auto, idx) ==
  LET cpus_per_crs == Len(remaining_cpus) \div num_auto
  IN  SubSeq(remaining_cpus, idx * cpus_per_crs + 1, (idx + 1) * cpus_per_crs)

\* AutoCpus whose first CRS, not its last, takes the remainder
AutoCpus_FirstTakesRemainder(remaining_cpus, num_auto, idx) ==
  LET cpus_per_crs == Len(remaining_cpus) \div num_auto
      extra == Len(remaining_cpus) - cpus_per_crs * num_auto
  IN  IF idx = 0 THEN SubSeq(remaining_cpus, 1, cpus_per_crs + extra)
      ELSE SubSeq(remaining_cpus, extra + idx * cpus_per_crs + 1,
                  extra + (idx + 1) * cpus_per_crs)

AutoCpus(remaining_cpus, num_auto, idx) ==
  LET cpus_per_crs == Len(remaining_cpus) \div num_auto
      start_idx == idx * cpus_per_crs
      end_idx == IF idx = num_auto - 1 THEN Len(remaining_cpus)
                 ELSE start_idx + cpus_per_crs
  IN  SubSeq(remaining_cpus, start_idx + 1, end_idx)

\* AutoMemory that gives the last CRS the share of the others: the
\* remainder of the division is given to nobody
AutoMemory_NoRemainder(remaining_memory_mb, num_auto, idx) ==
  remaining_memory_mb \div num_auto

\* AutoMemory whose share is rounded up, the last CRS getting what is left
AutoMemory_RoundUp(remaining_memory_mb, num_auto, idx) ==
  LET memory_per_crs == (remaining_memory_mb + num_auto - 1) \div num_auto
  IN  IF idx = num_auto - 1
      THEN remaining_memory_mb - (memory_per_crs * (num_auto - 1))
      ELSE memory_per_crs

\* lines 238, 251-255: the memory of the CRS at position idx (from 0)
AutoMemory(remaining_memory_mb, num_auto, idx) ==
  LET memory_per_crs == remaining_memory_mb \div num_auto
  IN  IF idx = num_auto - 1
      THEN remaining_memory_mb - (memory_per_crs * (num_auto - 1))
      ELSE memory_per_crs

\* lines 257-262: the record of an auto-divided CRS
AutoRecord(crs_name, crs_cpus_list, crs_memory) ==
  [name |-> crs_name,
   cpuset |-> format_cpu_list(crs_cpus_list),
   memory_limit |-> format_memory(crs_memory),
   suffix |-> "runner"]

\* lines 240-262: the records of all auto-divided CRS, in list order
AutoRecords(names, remaining_cpus, remaining_memory_mb) ==
  [i \in 1..Len(names) |->
     AutoRecord(names[i],
                AutoCpus(remaining_cpus, Len(names), i - 1),
                AutoMemory(remaining_memory_mb, Len(names), i - 1))]

(***************************************************************************)
(* main, lines 373-378: no worker declared ends the run with status 1.     *)
(***************************************************************************)
\* MainStart without the test of lines 376-378
MainStart_NoCheck ==
  /\ pc = "main"
  /\ pc' = "loop"
  /\ widx' = 1
  /\ UNCHANGED <<rc, error>>
  /\ UNCHANGED <<harness, resource_config, locals, outputs>>

MainStart ==
  /\ pc = "main"
  /\ IF workers = <<>>
     THEN /\ pc' = "exit"
          /\ rc' = 1
          /\ error' = "NoWorkers"
          /\ UNCHANGED widx
     ELSE /\ pc' = "loop"
          /\ widx' = 1
          /\ UNCHANGED <<rc, error>>
  /\ UNCHANGED <<harness, resource_config, locals, outputs>>

(***************************************************************************)
(* main, lines 382-386, entering get_crs_for_worker, lines 135-179: the    *)
(* worker's pool is parsed, the CRS of the worker are classified, and an   *)
(* empty classification returns [] at once.                                *)
(***************************************************************************)
\* Classify that leaves the accumulators as the worker before left them
Classify_KeepAccumulators ==
  /\ pc = "loop"
  /\ widx <= Len(workers)
  /\ LET worker_resources == workers[widx].res
         worker_cpus == parse_cpu_range(Get(worker_resources, "cpuset", DefaultCpuset))
         worker_memory == parse_memory_mb(Get(worker_resources, "memory", DefaultMemory))
         explicit == ExplicitCrs(worker_name, crs_configs)
         auto == AutoDivideCrs(worker_name, crs_configs)
     IN  IF ~worker_cpus.ok \/ ~worker_memory.ok
         THEN /\ pc' = "exit"
              /\ rc' = 1
              /\ error' = "ValueError"
              /\ worker_all_cpus' = {}
              /\ worker_total_memory_mb' = 0
              /\ explicit_crs' = <<>>
              /\ auto_divide_crs' = <<>>
              /\ eidx' = 1
              /\ UNCHANGED <<used_cpus, used_memory_mb, result>>
         ELSE /\ worker_all_cpus' = ToSet(worker_cpus.val)
              /\ worker_total_memory_mb' = worker_memory.val
              /\ explicit_crs' = explicit
              /\ auto_divide_crs' = auto
              /\ eidx' = 1
              /\ UNCHANGED <<used_cpus, used_memory_mb, result>>
              /\ pc' = IF explicit = <<>> /\ auto = <<>> THEN "returned" ELSE "validate"
              /\ UNCHANGED <<rc, error>>
  /\ UNCHANGED <<harness, resource_config, widx, outputs>>

Classify ==
  /\ pc = "loop"
  /\ widx <= Len(workers)
  /\ LET worker_resources == workers[widx].res
         worker_cpus == parse_cpu_range(Get(worker_resources, "cpuset", DefaultCpuset))
         worker_memory == parse_memory_mb(Get(worker_resources, "memory", DefaultMemory))
         explicit == ExplicitCrs(worker_name, crs_configs)
         auto == AutoDivideCrs(worker_name, crs_configs)
     IN  IF ~worker_cpus.ok \/ ~worker_memory.ok
         THEN \* ValueError before any other local is bound
              /\ pc' = "exit"
              /\ rc' = 1
              /\ error' = "ValueError"
              /\ worker_all_cpus' = {}
              /\ worker_total_memory_mb' = 0
              /\ explicit_crs' = <<>>
              /\ auto_divide_crs' = <<>>
              /\ eidx' = 1
              /\ used_cpus' = {}
              /\ used_memory_mb' = 0
              /\ result' = <<>>
         ELSE /\ worker_all_cpus' = ToSet(worker_cpus.val)
              /\ worker_total_memory_mb' = worker_memory.val
              /\ explicit_crs' = explicit
              /\ auto_divide_crs' = auto
              /\ eidx' = 1
              /\ used_cpus' = {}
              /\ used_memory_mb' = 0
              /\ result' = <<>>
              /\ pc' = IF explicit = <<>> /\ auto = <<>> THEN "returned" ELSE "validate"
              /\ UNCHANGED <<rc, error>>
  /\ UNCHANGED <<harness, resource_config, widx, outputs>>

\* ValidateExplicit that also holds the claims to the worker's memory
\* budget
ValidateExplicit_MemoryChecked ==
  /\ pc = "validate"
  /\ eidx <= Len(explicit_crs)
  /\ LET crs_name == explicit_crs[eidx].name
         crs_resources == explicit_crs[eidx].resources
         crs_cpus == parse_cpu_range(Get(crs_resources, "cpuset", DefaultCpuset))
         crs_memory == parse_memory_mb(Get(crs_resources, "memory", DefaultMemory))
         crs_cpus_set == ToSet(crs_cpus.val)
         check == ClaimCheck(crs_cpus_set, worker_all_cpus, used_cpus)
     IN  IF ~crs_cpus.ok \/ ~crs_memory.ok
         THEN /\ pc' = "exit"
              /\ rc' = 1
              /\ error' = "ValueError"
              /\ UNCHANGED <<eidx, used_cpus, used_memory_mb, result>>
         ELSE IF check # "ok"
         THEN /\ pc' = "exit"
              /\ rc' = 1
              /\ error' = check
              /\ UNCHANGED <<eidx, used_cpus, used_memory_mb, result>>
         ELSE IF used_memory_mb + crs_memory.val > worker_total_memory_mb
         THEN /\ pc' = "exit"
              /\ rc' = 1
              /\ error' = "InsufficientMemory"
              /\ UNCHANGED <<eidx, used_cpus, used_memory_mb, result>>
         ELSE /\ used_cpus' = used_cpus \cup crs_cpus_set
              /\ used_memory_mb' = used_memory_mb + crs_memory.val
              /\ result' = Append(result,
                                  ExplicitRecord(crs_name, crs_cpus.val, crs_memory.val))
              /\ eidx' = eidx + 1
              /\ UNCHANGED <<pc, rc, error>>
  /\ UNCHANGED <<harness, resource_config, widx, worker_all_cpus,
                 worker_total_memory_mb,
                 explicit_crs, auto_divide_crs, outputs>>

\* ValidateExplicit whose failures give up the worker only: the run goes
\* on with the next worker
ValidateExplicit_AbortWorkerOnly ==
  /\ pc = "validate"
  /\ eidx <= Len(explicit_crs)
  /\ LET crs_name == explicit_crs[eidx].name
         crs_resources == explicit_crs[eidx].resources
         crs_cpus == parse_cpu_range(Get(crs_resources, "cpuset", DefaultCpuset))
         crs_memory == parse_memory_mb(Get(crs_resources, "memory", DefaultMemory))
         crs_cpus_set == ToSet(crs_cpus.val)
     IN  IF ~crs_cpus.ok \/ ~crs_memory.ok
            \/ ClaimCheck(crs_cpus_set, worker_all_cpus, used_cpus) # "ok"
         THEN /\ pc' = "loop"
              /\ widx' = widx + 1
              /\ UNCHANGED <<eidx, used_cpus, used_memory_mb, result>>
         ELSE /\ used_cpus' = used_cpus \cup crs_cpus_set
              /\ used_memory_mb' = used_memory_mb + crs_memory.val
              /\ result' = Append(result,
                                  ExplicitRecord(crs_name, crs_cpus.val, crs_memory.val))
              /\ eidx' = eidx + 1
              /\ UNCHANGED <<pc, widx>>
  /\ UNCHANGED <<harness, resource_config, rc, error, worker_all_cpus,
                 worker_total_memory_mb, explicit_crs, auto_divide_crs, outputs>>

\* ValidateExplicit that reports a failing claim and goes on to the next
\* one instead of ending the process
ValidateExplicit_SkipFailing ==
  /\ pc = "validate"
  /\ eidx <= Len(explicit_crs)
  /\ LET crs_name == explicit_crs[eidx].name
         crs_resources == explicit_crs[eidx].resources
         crs_cpus == parse_cpu_range(Get(crs_resources, "cpuset", DefaultCpuset))
         crs_memory == parse_memory_mb(Get(crs_resources, "memory", DefaultMemory))
         crs_cpus_set == ToSet(crs_cpus.val)
     IN  IF ~crs_cpus.ok \/ ~crs_memory.ok
            \/ ClaimCheck(crs_cpus_set, worker_all_cpus, used_cpus) # "ok"
         THEN /\ eidx' = eidx + 1
              /\ UNCHANGED <<used_cpus, used_memory_mb, result>>
         ELSE /\ used_cpus' = used_cpus \cup crs_cpus_set
              /\ used_memory_mb' = used_memory_mb + crs_memory.val
              /\ result' = Append(result,
                                  ExplicitRecord(crs_name, crs_cpus.val, crs_memory.val))
              /\ eidx' = eidx + 1
  /\ UNCHANGED <<harness, resource_config, pc, rc, error, widx, worker_all_cpus,
                 worker_total_memory_mb, explicit_crs, auto_divide_crs, outputs>>

(***************************************************************************)
(* get_crs_for_worker, lines 182-212: one pass of the loop over the        *)
(* explicit claims. sys.exit(1) ends the whole process.                    *)
(***************************************************************************)
ValidateExplicit ==
  /\ pc = "validate"
  /\ eidx <= Len(explicit_crs)
  /\ LET crs_name == explicit_crs[eidx].name
         crs_resources == explicit_crs[eidx].resources
         crs_cpus == parse_cpu_range(Get(crs_resources, "cpuset", DefaultCpuset))
         crs_memory == parse_memory_mb(Get(crs_resources, "memory", DefaultMemory))
         crs_cpus_set == ToSet(crs_cpus.val)
         check == ClaimCheck(crs_cpus_set, worker_all_cpus, used_cpus)
     IN  IF ~crs_cpus.ok \/ ~crs_memory.ok
         THEN /\ pc' = "exit"
              /\ rc' = 1
              /\ error' = "ValueError"
              /\ UNCHANGED <<eidx, used_cpus, used_memory_mb, result>>
         ELSE IF check # "ok"
         THEN /\ pc' = "exit"
              /\ rc' = 1
              /\ error' = check
              /\ UNCHANGED <<eidx, used_cpus, used_memory_mb, result>>
         ELSE /\ used_cpus' = used_cpus \cup crs_cpus_set
              /\ used_memory_mb' = used_memory_mb + crs_memory.val
              /\ result' = Append(result,
                                  ExplicitRecord(crs_name, crs_cpus.val, crs_memory.val))
              /\ eidx' = eidx + 1
              /\ UNCHANGED <<pc, rc, error>>
  /\ UNCHANGED <<harness, resource_config, widx, worker_all_cpus,
                 worker_total_memory_mb,
                 explicit_crs, auto_divide_crs, outputs>>

(***************************************************************************)
(* get_crs_for_worker, lines 214-264: after the explicit claims, the auto  *)
(* CRS share what remains, and the list is returned.                       *)
(***************************************************************************)
\* AutoDivide that puts the auto records in front of the list
AutoDivide_AutoFirst ==
  /\ pc = "validate"
  /\ eidx > Len(explicit_crs)
  /\ LET remaining_cpus == RemainingCpus(worker_all_cpus, used_cpus)
         remaining_memory_mb == RemainingMemory(worker_total_memory_mb, used_memory_mb)
         num_auto == Len(auto_divide_crs)
         check == AutoCheck(remaining_cpus, remaining_memory_mb, num_auto)
     IN  IF auto_divide_crs = <<>>
         THEN /\ pc' = "returned"
              /\ UNCHANGED <<result, rc, error>>
         ELSE IF check # "ok"
         THEN /\ pc' = "exit"
              /\ rc' = 1
              /\ error' = check
              /\ UNCHANGED result
         ELSE /\ result' = AutoRecords(auto_divide_crs, remaining_cpus,
                                       remaining_memory_mb) \o result
              /\ pc' = "returned"
              /\ UNCHANGED <<rc, error>>
  /\ UNCHANGED <<harness, resource_config, widx, worker_all_cpus,
                 worker_total_memory_mb,
                 explicit_crs, auto_divide_crs, eidx, used_cpus, used_memory_mb,
                 outputs>>

AutoDivide ==
  /\ pc = "validate"
  /\ eidx > Len(explicit_crs)
  /\ LET remaining_cpus == RemainingCpus(worker_all_cpus, used_cpus)
         remaining_memory_mb == RemainingMemory(worker_total_memory_mb, used_memory_mb)
         num_auto == Len(auto_divide_crs)
         check == AutoCheck(remaining_cpus, remaining_memory_mb, num_auto)
     IN  IF auto_divide_crs = <<>>
         THEN /\ pc' = "returned"
              /\ UNCHANGED <<result, rc, error>>
         ELSE IF check # "ok"
         THEN /\ pc' = "exit"
              /\ rc' = 1
              /\ error' = check
              /\ UNCHANGED result
         ELSE /\ result' = result \o AutoRecords(auto_divide_crs, remaining_cpus,
                                                 remaining_memory_mb)
              /\ pc' = "returned"
              /\ UNCHANGED <<rc, error>>
  /\ UNCHANGED <<harness, resource_config, widx, worker_all_cpus,
                 worker_total_memory_mb,
                 explicit_crs, auto_divide_crs, eidx, used_cpus, used_memory_mb,
                 outputs>>

(***************************************************************************)
(* main, lines 388-410: an empty list skips the worker; otherwise every    *)
(* record is reported through its 'cpuset' key (a record without that key  *)
(* raises KeyError, which nothing catches), the template is rendered and   *)
(* compose-<worker>.yaml is written. compose.yaml.j2 is taken to lie       *)
(* beside the script, so that rendering does not raise FileNotFoundError.  *)
(***************************************************************************)
\* ReportAndWrite without the skip of lines 388-390: an empty list is
\* rendered and written like any other
ReportAndWrite_WriteEmpty ==
  /\ pc = "returned"
  /\ LET crs_list == result
     IN  IF \E i \in 1..Len(crs_list) : "cpuset" \notin DOMAIN crs_list[i]
         THEN /\ pc' = "exit"
              /\ rc' = 1
              /\ error' = "KeyError"
              /\ UNCHANGED <<widx, outputs>>
         ELSE /\ files' = Append(files, [worker |-> worker_name, crs_runners |-> crs_list])
              /\ total_crs_count' = total_crs_count + Len(crs_list)
              /\ pc' = "loop"
              /\ widx' = widx + 1
              /\ UNCHANGED <<rc, error>>
  /\ UNCHANGED <<harness, resource_config, locals>>

ReportAndWrite ==
  /\ pc = "returned"
  /\ LET crs_list == result
     IN  IF crs_list = <<>>
         THEN /\ pc' = "loop"
              /\ widx' = widx + 1
              /\ UNCHANGED <<outputs, rc, error>>
         ELSE IF \E i \in 1..Len(crs_list) : "cpuset" \notin DOMAIN crs_list[i]
         THEN /\ pc' = "exit"
              /\ rc' = 1
              /\ error' = "KeyError"
              /\ UNCHANGED <<widx, outputs>>
         ELSE /\ files' = Append(files, [worker |-> worker_name, crs_runners |-> crs_list])
              /\ total_crs_count' = total_crs_count + Len(crs_list)
              /\ pc' = "loop"
              /\ widx' = widx + 1
              /\ UNCHANGED <<rc, error>>
  /\ UNCHANGED <<harness, resource_config, locals>>

(***************************************************************************)
(* main, lines 412-417: after the last worker the summary is printed and   *)
(* main returns 0.                                                         *)
(***************************************************************************)
Finish ==
  /\ pc = "loop"
  /\ widx > Len(workers)
  /\ pc' = "exit"
  /\ rc' = 0
  /\ UNCHANGED <<harness, resource_config, widx, locals, outputs, error>>

Next ==
  \/ MainStart
  \/ Classify
  \/ ValidateExplicit
  \/ AutoDivide
  \/ ReportAndWrite
  \/ Finish

(***************************************************************************)
(* The configurations of the model: what yaml.safe_load can return for     *)
(* config-resource.yaml. CRS are named c1, c2, ... in file order, the      *)
(* workers are w1 and w2.                                                  *)
(***************************************************************************)
Range(a, b) == PyStr(a) \o <<"-">> \o PyStr(b)

Rec(cpuset_spec, memory_spec) == [cpuset |-> cpuset_spec, memory |-> memory_spec]

CrsName(i) == <<"c">> \o PyStr(i)

\* worker entries: every field missing (the defaults), or a pool and a budget
WorkerRecs ==
  { EmptyDict,
    Rec(Range(0, MaxCore + 1), <<"2", "G">>),
    Rec(Range(1, MaxCore), <<"1", "5", "3", "6">>) }

\* the records of explicit claims: ranges inside the pools and across their
\* end, a single core, an inverted range, a comma list, and records that
\* leave a field to its default
ClaimRecs ==
  { Rec(Range(0, 1), <<"1", "G">>),
    Rec(Range(1, 2), <<"5", "1", "2", "m">>),
    Rec(Range(2, MaxCore), <<"1", "G">>),
    Rec(PyStr(MaxCore), <<"5", "1", "3", "M">>),
    Rec(Range(MaxCore, MaxCore + 1), <<"1", "G">>),
    Rec(Range(2, 1), <<"5", "1", "2", "M">>),
    Rec(<<"0", ",", "1">>, <<"1", "G">>),
    [cpuset |-> PyStr(0)],
    [memory |-> <<" ", "1", "0", "0", "0", " ">>] }

\* one worker, each CRS on it either auto or with a per-worker claim
OneWorkerCrsCfgs ==
  { [workers |-> <<"w1">>] }
    \cup { [workers |-> <<"w1">>, resources |-> [w1 |-> r]] : r \in ClaimRecs }

\* the configuration with the worker list w and the CRS configurations c
Config(w, c) ==
  [workers |-> w, crs |-> [i \in 1..NumCrs |-> [name |-> CrsName(i), cfg |-> c[i]]]]

\* two workers: every shape of 'workers' and 'resources' of a CRS entry
RecA == Rec(Range(0, 1), <<"1", "G">>)
RecB == Rec(Range(1, 2), <<"5", "1", "2", "m">>)

TwoWorkerCrsCfgs ==
  { EmptyDict,
    [workers |-> <<"w1">>],
    [workers |-> <<"w2">>, resources |-> EmptyDict],
    [workers |-> <<"w1", "w2">>],
    [workers |-> <<"w1", "w2">>, resources |-> RecA],
    [workers |-> <<"w1", "w2">>, resources |-> [w1 |-> RecA]],
    [workers |-> <<"w2", "w1">>, resources |-> [w2 |-> RecB]],
    [workers |-> <<"w1", "w2">>, resources |-> [w1 |-> RecB, w2 |-> RecA]],
    [workers |-> <<"w1", "w2">>, resources |-> [memory |-> <<"1", "G">>]],
    [workers |-> <<"w1", "w2">>,
     resources |-> [w1 |-> RecA, cpuset |-> Range(2, MaxCore), memory |-> <<"1", "G">>]] }

BigWorker == Rec(Range(0, MaxCore + 1), <<"2", "G">>)

WorkerLists ==
  { <<>>,
    <<[name |-> "w1", res |-> EmptyDict]>>,
    <<[name |-> "w1", res |-> EmptyDict], [name |-> "w2", res |-> EmptyDict]>>,
    <<[name |-> "w1", res |-> EmptyDict], [name |-> "w2", res |-> BigWorker]>>,
    <<[name |-> "w1", res |-> BigWorker], [name |-> "w2", res |-> EmptyDict]>>,
    <<[name |-> "w2", res |-> EmptyDict], [name |-> "w1", res |-> EmptyDict]>> }

Init ==
  /\ \/ \E w \in WorkerRecs, c \in [1..NumCrs -> OneWorkerCrsCfgs] :
          resource_config = Config(<<[name |-> "w1", res |-> w]>>, c)
     \/ \E w \in WorkerLists, c \in [1..NumCrs -> TwoWorkerCrsCfgs] :
          resource_config = Config(w, c)
  /\ pc = "main"
  /\ widx = 0
  /\ worker_all_cpus = {}
  /\ worker_total_memory_mb = 0
  /\ explicit_crs = <<>>
  /\ auto_divide_crs = <<>>
  /\ eidx = 0
  /\ used_cpus = {}
  /\ used_memory_mb = 0
  /\ result = <<>>
  /\ files = <<>>
  /\ total_crs_count = 0
  /\ rc = -1
  /\ error = "none"
  /\ test_pc = "idle"
  /\ original = <<>>
  /\ parsed = [ok |-> FALSE, val |-> <<>>]
  /\ formatted = <<>>
  /\ reparsed = [ok |-> FALSE, val |-> <<>>]

Spec == Init /\ [][Next]_vars

(***************************************************************************)
(* Reading the state: the cores and the memory of a returned record, the   *)
(* parsed claims of the worker being planned, and where the run stands.    *)
(***************************************************************************)
RECURSIVE SplitAt(_, _)
SplitAt(s, sep) ==
  IF \A i \in 1..Len(s) : s[i] # sep THEN <<s>>
  ELSE LET k == CHOOSE i \in 1..Len(s) :
                  s[i] = sep /\ \A j \in 1..(i - 1) : s[j] # sep
       IN  <<SubSeq(s, 1, k - 1)>> \o SplitAt(SubSeq(s, k + 1, Len(s)), sep)

\* the cores a record lists under 'cpus' or 'cpuset', in the order listed
AllocCpuList(rec) ==
  LET text == IF "cpuset" \in DOMAIN rec THEN rec.cpuset ELSE rec.cpus
      parts == IF text = <<>> THEN <<>> ELSE SplitAt(text, ",")
  IN  [i \in 1..Len(parts) |-> PyInt(parts[i]).val]

AllocCpus(rec) == ToSet(AllocCpuList(rec))

\* the memory limit of a record, in MB
AllocMemoryMB(rec) == parse_memory_mb(rec.memory_limit).val

RECURSIVE SumMemoryMB(_)
SumMemoryMB(recs) ==
  IF recs = <<>> THEN 0 ELSE AllocMemoryMB(recs[1]) + SumMemoryMB(Tail(recs))

RECURSIVE UnionCpus(_)
UnionCpus(recs) ==
  IF recs = <<>> THEN {} ELSE AllocCpus(recs[1]) \cup UnionCpus(Tail(recs))

RECURSIVE SumCpuCount(_)
SumCpuCount(recs) ==
  IF recs = <<>> THEN 0 ELSE Len(AllocCpuList(recs[1])) + SumCpuCount(Tail(recs))

\* get_crs_for_worker has returned `result` for the worker at widx
Returned == pc = "returned"

NumExplicit == Len(explicit_crs)
NumAuto == Len(auto_divide_crs)

\* the records of the returned list that auto-division appended
AutoAllocs == SubSeq(result, NumExplicit + 1, Len(result))

\* the fatal errors of planning
PlanningErrors == {"OutOfRange", "Conflict", "InsufficientCpus", "InsufficientMemory"}

(***************************************************************************)
(* C1: whenever get_crs_for_worker returns, the core sets of any two       *)
(* distinct allocations of the returned list are disjoint.                 *)
(***************************************************************************)
C1_PairwiseDisjoint ==
  Returned =>
    \A i \in 1..Len(result) : \A j \in 1..Len(result) :
      i # j => AllocCpus(result[i]) \cap AllocCpus(result[j]) = {}

\* two explicit claims and an auto CRS, none of them empty
C1_Witness ==
  /\ Returned
  /\ NumExplicit = 2
  /\ NumAuto = 1
  /\ \A i \in 1..Len(result) : AllocCpus(result[i]) # {}

(***************************************************************************)
(* C2: whenever get_crs_for_worker returns, the core set of every          *)
(* returned allocation is a subset of the worker's core pool.              *)
(***************************************************************************)
C2_WithinPool ==
  Returned => \A i \in 1..Len(result) : AllocCpus(result[i]) \subseteq worker_all_cpus

\* an explicit claim and two auto CRS on a pool that is not the default one
C2_Witness ==
  /\ Returned
  /\ NumExplicit = 1
  /\ NumAuto = 2
  /\ worker_all_cpus # 0..3
  /\ AllocCpus(result[1]) # {}

(***************************************************************************)
(* C3: in a run ended by a fatal planning error (out-of-range, conflict,   *)
(* insufficient resources) no compose file has been written for any        *)
(* worker.                                                                 *)
(***************************************************************************)
C3_NoOutputOnFatalError ==
  (pc = "exit" /\ error \in PlanningErrors) => files = <<>>

(***************************************************************************)
(* C4: whenever get_crs_for_worker returns, the memory limits of the       *)
(* returned allocations sum to at most the worker's memory budget.         *)
(***************************************************************************)
C4_Original == Returned => SumMemoryMB(result) <= worker_total_memory_mb

\* C4, amended: the bound holds whenever the worker has at least one auto
\* CRS; the memory of explicit claims alone is not checked against it.
C4_WithinBudgetWhenAuto ==
  (Returned /\ NumAuto >= 1) => SumMemoryMB(result) <= worker_total_memory_mb

\* an explicit claim and two auto CRS that share what it leaves
C4_Witness ==
  /\ Returned
  /\ NumExplicit >= 1
  /\ NumAuto = 2
  /\ SumMemoryMB(result) = worker_total_memory_mb

(***************************************************************************)
(* C5: every allocation made by auto-division has at least 1 core and at   *)
(* least 512 MB.                                                           *)
(***************************************************************************)
C5_AutoMinimum ==
  Returned =>
    \A i \in 1..Len(AutoAllocs) :
      /\ Cardinality(AllocCpus(AutoAllocs[i])) >= 1
      /\ AllocMemoryMB(AutoAllocs[i]) >= 512

\* auto CRS that get exactly the minimum memory after an explicit claim
C5_Witness ==
  /\ Returned
  /\ NumExplicit >= 1
  /\ NumAuto = 2
  /\ \A i \in 1..Len(AutoAllocs) : AllocMemoryMB(AutoAllocs[i]) = 512

(***************************************************************************)
(* C6: when auto-division succeeds, the auto allocations' cores are        *)
(* exactly the remaining cores, each handed out once, and their memory     *)
(* sums to exactly the remaining memory.                                   *)
(***************************************************************************)
C6_AutoExhaustsRemainder ==
  (Returned /\ NumAuto >= 1) =>
    /\ UnionCpus(AutoAllocs) = worker_all_cpus \ used_cpus
    /\ SumCpuCount(AutoAllocs) = Cardinality(worker_all_cpus \ used_cpus)
    /\ SumMemoryMB(AutoAllocs) = worker_total_memory_mb - used_memory_mb

\* a division that leaves a remainder in cores and in memory
C6_Witness ==
  /\ Returned
  /\ NumAuto >= 2
  /\ used_cpus # {}
  /\ Cardinality(worker_all_cpus \ used_cpus) % NumAuto # 0
  /\ (worker_total_memory_mb - used_memory_mb) % NumAuto # 0

(***************************************************************************)
(* C7: with c = len(remaining) // n and m = remainingMemory // n, the i-th *)
(* auto CRS (0 <= i < n-1) gets the sorted remaining cores at positions    *)
(* i*c .. (i+1)*c - 1 and m MB; the last gets the cores from (n-1)*c to    *)
(* the end and remainingMemory - m*(n-1) MB.                               *)
(***************************************************************************)
C7_AutoSlices ==
  (Returned /\ NumAuto >= 1) =>
    LET remaining == Sorted(worker_all_cpus \ used_cpus)
        remainingMemory == worker_total_memory_mb - used_memory_mb
        n == NumAuto
        c == Len(remaining) \div n
        m == remainingMemory \div n
    IN  \A i \in 0..(n - 1) :
          LET a == AutoAllocs[i + 1]
          IN  /\ a.name = auto_divide_crs[i + 1]
              /\ AllocCpuList(a) =
                   IF i < n - 1
                   THEN [k \in 1..c |-> remaining[i * c + k]]
                   ELSE [k \in 1..(Len(remaining) - (n - 1) * c) |->
                           remaining[(n - 1) * c + k]]
              /\ AllocMemoryMB(a) =
                   IF i < n - 1 THEN m ELSE remainingMemory - m * (n - 1)

\* four remaining cores among three auto CRS: one, one and two cores
C7_Witness ==
  /\ Returned
  /\ NumAuto = 3
  /\ Cardinality(worker_all_cpus \ used_cpus) = 4
  /\ Len(AllocCpuList(AutoAllocs[1])) = 1
  /\ Len(AllocCpuList(AutoAllocs[2])) = 1
  /\ Len(AllocCpuList(AutoAllocs[3])) = 2

(***************************************************************************)
(* The explicit claims of the worker being planned, as lines 183-188 parse *)
(* them, and how far their validation has come.                            *)
(***************************************************************************)
ClaimCpusParsed(k) ==
  parse_cpu_range(Get(explicit_crs[k].resources, "cpuset", DefaultCpuset))

ClaimMemoryParsed(k) ==
  parse_memory_mb(Get(explicit_crs[k].resources, "memory", DefaultMemory))

ClaimParses(k) == ClaimCpusParsed(k).ok /\ ClaimMemoryParsed(k).ok

ClaimCpuSet(k) == ToSet(ClaimCpusParsed(k).val)

InPool(k) == ClaimParses(k) /\ ClaimCpuSet(k) \subseteq worker_all_cpus

Overlaps(j, k) == ClaimCpuSet(j) \cap ClaimCpuSet(k) # {}

\* the first k claims are all within the pool and pairwise disjoint
GoodPrefix(k) ==
  \A j \in 1..k : InPool(j) /\ \A i \in 1..(j - 1) : ~Overlaps(i, j)

AllClaimsParse == \A k \in 1..NumExplicit : ClaimParses(k)

\* the loop over the explicit claims of the last call has ended, either by
\* running to its end or by ending the process
ValidationOver ==
  \/ pc = "returned"
  \/ pc = "validate" /\ eidx > NumExplicit
  \/ pc = "exit" /\ error # "NoWorkers"

ValidationSucceeded == ValidationOver /\ eidx > NumExplicit

(***************************************************************************)
(* C8: if two explicit claims of a worker share a core and both are within *)
(* the pool, planning the worker fails with a conflict error when the      *)
(* later one is validated; if no two share a core and all are in range,    *)
(* validation of the explicit claims succeeds.                             *)
(***************************************************************************)
C8_Original ==
  /\ \A k \in 1..NumExplicit : \A j \in 1..(k - 1) :
       (ValidationOver /\ AllClaimsParse /\ InPool(j) /\ InPool(k) /\ Overlaps(j, k))
         => (pc = "exit" /\ error = "Conflict" /\ eidx <= k)
  /\ (ValidationOver /\ GoodPrefix(NumExplicit)) => ValidationSucceeded

\* C8, amended: the conflict error is raised at the later claim provided
\* the claims validated before it are within the pool and disjoint from
\* their predecessors; otherwise planning has failed at that earlier claim.
C8_ConflictAtFirstOverlap ==
  /\ \A k \in 1..NumExplicit :
       (ValidationOver /\ GoodPrefix(k - 1) /\ InPool(k)
          /\ \E j \in 1..(k - 1) : Overlaps(j, k))
         => (pc = "exit" /\ rc = 1 /\ error = "Conflict" /\ eidx = k
               /\ Len(result) = k - 1)
  /\ (ValidationOver /\ GoodPrefix(NumExplicit))
       => (ValidationSucceeded /\ error \notin {"Conflict", "OutOfRange", "ValueError"}
             /\ Len(result) >= NumExplicit)

\* the third claim overlaps one of the two claims accepted before it
C8_Witness ==
  /\ pc = "exit"
  /\ error = "Conflict"
  /\ eidx = 3
  /\ Len(result) = 2

(***************************************************************************)
(* C9: if an explicit claim names a core outside the worker's pool,        *)
(* planning the worker fails with an out-of-range error and no allocation  *)
(* is produced for that claim.                                             *)
(***************************************************************************)
C9_Original ==
  \A k \in 1..NumExplicit :
    (ValidationOver /\ AllClaimsParse /\ ~(ClaimCpuSet(k) \subseteq worker_all_cpus))
      => (pc = "exit" /\ error = "OutOfRange" /\ Len(result) < k)

\* C9, amended: planning fails and the claim gets no allocation; the error
\* is the out-of-range error raised at that claim unless validation has
\* already stopped at an earlier claim of the worker.
C9_OutOfRangeFails ==
  \A k \in 1..NumExplicit :
    (ValidationOver /\ ClaimParses(k) /\ ~(ClaimCpuSet(k) \subseteq worker_all_cpus))
      => /\ pc = "exit"
         /\ rc = 1
         /\ error \in {"OutOfRange", "Conflict", "ValueError"}
         /\ Len(result) < k
         /\ GoodPrefix(k - 1) => (error = "OutOfRange" /\ eidx = k)

\* the second claim leaves the pool after the first one was accepted
C9_Witness ==
  /\ pc = "exit"
  /\ error = "OutOfRange"
  /\ eidx = 2
  /\ Len(result) = 1

(***************************************************************************)
(* C10: for a worker with n >= 1 auto CRS, auto-division fails with an     *)
(* insufficient-resources error if and only if fewer than n cores remain   *)
(* or less than n * 512 MB remain.                                         *)
(***************************************************************************)
\* the last call reached auto-division with at least one auto CRS
AutoDivisionDone ==
  /\ pc \in {"returned", "loop", "exit"}
  /\ NumAuto >= 1
  /\ eidx > NumExplicit

C10_AutoFailsIff ==
  AutoDivisionDone =>
    ((pc = "exit" /\ rc = 1 /\ error \in {"InsufficientCpus", "InsufficientMemory"})
       <=> \/ Cardinality(worker_all_cpus \ used_cpus) < NumAuto
           \/ worker_total_memory_mb - used_memory_mb < NumAuto * 512)

\* enough cores for two auto CRS, but less than 2 * 512 MB left for them
C10_Witness ==
  /\ pc = "exit"
  /\ error = "InsufficientMemory"
  /\ NumAuto = 2
  /\ NumExplicit = 1
  /\ worker_total_memory_mb - used_memory_mb > 0
  /\ Cardinality(worker_all_cpus \ used_cpus) >= 2

(***************************************************************************)
(* The CRS of the configuration that may run on a worker, read from the    *)
(* configuration alone.                                                    *)
(***************************************************************************)
\* the worker whose get_crs_for_worker call the locals belong to
InCall == pc \in {"validate", "returned"}

CrsWorkers(i) == ToSet(Get(crs_configs[i].cfg, "workers", <<>>))

CrsResources(i) == Get(crs_configs[i].cfg, "resources", EmptyDict)

Eligible(w) == {i \in 1..Len(crs_configs) : w \in CrsWorkers(i)}

\* claim k fails its validation: it does not parse, leaves the pool or
\* overlaps a claim before it
ClaimFails(k) == ~InPool(k) \/ \E j \in 1..(k - 1) : Overlaps(j, k)

RECURSIVE ClaimedCpus(_)
ClaimedCpus(k) == IF k = 0 THEN {} ELSE ClaimCpuSet(k) \cup ClaimedCpus(k - 1)

RECURSIVE ClaimedMemoryMB(_)
ClaimedMemoryMB(k) ==
  IF k = 0 THEN 0 ELSE ClaimMemoryParsed(k).val + ClaimedMemoryMB(k - 1)

(***************************************************************************)
(* C11: validation of a worker's explicit claims stops at the first        *)
(* failing entry, the entries after it are neither validated nor           *)
(* accumulated, and get_crs_for_worker never returns a list that holds     *)
(* only some of the worker's eligible CRS.                                 *)
(***************************************************************************)
C11_StopsAtFirstFailure ==
  /\ (pc = "validate" \/ Returned) =>
       \* every entry passed so far was good, and exactly those are accumulated
       LET done == IF eidx > NumExplicit THEN NumExplicit ELSE eidx - 1
       IN  /\ GoodPrefix(done)
           /\ used_cpus = ClaimedCpus(done)
           /\ used_memory_mb = ClaimedMemoryMB(done)
           /\ pc = "validate" => Len(result) = done
  /\ (pc = "exit" /\ error \in {"OutOfRange", "Conflict", "ValueError"}
        /\ NumExplicit >= 1) =>
       /\ eidx <= NumExplicit
       /\ GoodPrefix(eidx - 1)
       /\ ClaimFails(eidx)
       /\ Len(result) = eidx - 1
       /\ used_cpus = ClaimedCpus(eidx - 1)
       /\ used_memory_mb = ClaimedMemoryMB(eidx - 1)
  /\ Returned => Len(result) = Cardinality(Eligible(worker_name))

\* the second of three claims fails: the third is never looked at
C11_Witness ==
  /\ pc = "exit"
  /\ error = "Conflict"
  /\ NumExplicit = 3
  /\ eidx = 2
  /\ Len(result) = 1

WorkerNames == {workers[j].name : j \in 1..Len(workers)}

ExplicitNames == {explicit_crs[k].name : k \in 1..NumExplicit}

AutoNames == {auto_divide_crs[k] : k \in 1..NumAuto}

(***************************************************************************)
(* C12: for the worker being planned the classifier keeps exactly the CRS  *)
(* whose workers list contains the worker; a kept CRS whose resources have *)
(* an entry keyed by the worker name is explicit with that entry (whatever *)
(* fields the resources define directly), and one whose resources are      *)
(* absent, empty or hold only entries of other workers is auto.            *)
(***************************************************************************)
C12_Classifier ==
  InCall =>
    /\ ExplicitNames \cup AutoNames =
         {crs_configs[i].name : i \in Eligible(worker_name)}
    /\ NumExplicit + NumAuto = Cardinality(Eligible(worker_name))
    /\ \A i \in Eligible(worker_name) :
         /\ worker_name \in DOMAIN CrsResources(i) =>
              \E k \in 1..NumExplicit :
                explicit_crs[k] = [name |-> crs_configs[i].name,
                                   resources |-> CrsResources(i)[worker_name]]
         /\ DOMAIN CrsResources(i) \subseteq WorkerNames \ {worker_name} =>
              crs_configs[i].name \in AutoNames

\* a CRS with both a per-worker entry and direct fields, a CRS with an entry
\* for the other worker only and a CRS that is not eligible at all
C12_Witness ==
  /\ InCall
  /\ \E i \in Eligible(worker_name) :
       /\ worker_name \in DOMAIN CrsResources(i)
       /\ "cpuset" \in DOMAIN CrsResources(i)
       /\ crs_configs[i].name \in ExplicitNames
  /\ \E i \in Eligible(worker_name) :
       /\ CrsResources(i) # EmptyDict
       /\ DOMAIN CrsResources(i) \subseteq WorkerNames \ {worker_name}
       /\ crs_configs[i].name \in AutoNames
  /\ Eligible(worker_name) # 1..Len(crs_configs)

\* the place of CRS i among the explicit claims of the worker being planned
\* (0 when it is not one of them)
ExplicitIndex(i) ==
  IF crs_configs[i].name \in ExplicitNames
  THEN CHOOSE k \in 1..NumExplicit : explicit_crs[k].name = crs_configs[i].name
  ELSE 0

\* the record the directly defined fields of CRS i stand for: a function of
\* the CRS alone, whatever the worker
GlobalRecord(i) ==
  ExplicitRecord(crs_configs[i].name,
                 parse_cpu_range(Get(CrsResources(i), "cpuset", DefaultCpuset)).val,
                 parse_memory_mb(Get(CrsResources(i), "memory", DefaultMemory)).val)

(***************************************************************************)
(* C13 as stated: a kept CRS whose resources have no entry keyed by the    *)
(* worker name but define a cpu field or a memory field directly is        *)
(* classified explicit.                                                    *)
(***************************************************************************)
C13_Original ==
  InCall =>
    \A i \in Eligible(worker_name) :
      ( /\ worker_name \notin DOMAIN CrsResources(i)
        /\ \/ "cpuset" \in DOMAIN CrsResources(i)
           \/ "memory" \in DOMAIN CrsResources(i) ) =>
        crs_configs[i].name \in ExplicitNames

(***************************************************************************)
(* C13 amended: a kept CRS whose resources have no entry keyed by the      *)
(* worker name is classified explicit (global) exactly when they define    *)
(* the cpuset field directly (a memory field alone leaves it auto); the    *)
(* claim is then the resources dict itself, the same on every worker on    *)
(* which the CRS is eligible, and the allocation emitted for it has the    *)
(* cores and memory of those fields whatever the worker.                   *)
(***************************************************************************)
C13_GlobalClaim ==
  InCall =>
    \A i \in Eligible(worker_name) :
      worker_name \notin DOMAIN CrsResources(i) =>
        IF "cpuset" \in DOMAIN CrsResources(i)
        THEN /\ ExplicitIndex(i) # 0
             /\ explicit_crs[ExplicitIndex(i)].resources = CrsResources(i)
             /\ ExplicitIndex(i) <= Len(result) =>
                  result[ExplicitIndex(i)] = GlobalRecord(i)
        ELSE crs_configs[i].name \in AutoNames

\* on the second worker of the configuration a global claim has been
\* validated and emitted, next to a CRS that defines memory only
C13_Witness ==
  /\ Returned
  /\ worker_name = "w2"
  /\ \E i \in Eligible("w2") :
       /\ "w2" \notin DOMAIN CrsResources(i)
       /\ "cpuset" \in DOMAIN CrsResources(i)
       /\ "w1" \in CrsWorkers(i)
       /\ result[ExplicitIndex(i)] = GlobalRecord(i)
  /\ \E i \in Eligible("w2") :
       /\ DOMAIN CrsResources(i) = {"memory"}
       /\ crs_configs[i].name \in AutoNames

\* CRS i makes an explicit claim on worker w
Claims(w, i) ==
  w \in DOMAIN CrsResources(i) \/ "cpuset" \in DOMAIN CrsResources(i)

\* the names of the CRS of S among the first n of the configuration, in
\* the order of the configuration
RECURSIVE NamesInOrder(_, _)
NamesInOrder(S, n) ==
  IF n = 0 THEN <<>>
  ELSE NamesInOrder(S, n - 1) \o
         (IF n \in S THEN <<crs_configs[n].name>> ELSE <<>>)

ExplicitInOrder(w) ==
  NamesInOrder({i \in Eligible(w) : Claims(w, i)}, Len(crs_configs))

AutoInOrder(w) ==
  NamesInOrder({i \in Eligible(w) : ~Claims(w, i)}, Len(crs_configs))

ResultNames == [k \in 1..Len(result) |-> result[k].name]

(***************************************************************************)
(* C14: the list returned for a worker holds the explicit allocations      *)
(* first, in the order of their CRS in the configuration, then the auto    *)
(* allocations, in the order of their CRS in the configuration; while the  *)
(* list is being built it is always a prefix of that sequence, so that no  *)
(* auto allocation ever precedes an explicit one.                          *)
(***************************************************************************)
C14_ExplicitThenAuto ==
  /\ Returned =>
       ResultNames = ExplicitInOrder(worker_name) \o AutoInOrder(worker_name)
  /\ pc = "validate" =>
       /\ Len(result) <= Len(ExplicitInOrder(worker_name))
       /\ ResultNames = SubSeq(ExplicitInOrder(worker_name), 1, Len(result))

\* two claims and one auto CRS, the auto CRS being the first of the
\* configuration
C14_Witness ==
  /\ Returned
  /\ Len(result) = 3
  /\ Claims(worker_name, 2)
  /\ Claims(worker_name, 3)
  /\ ResultNames = <<crs_configs[2].name, crs_configs[3].name, crs_configs[1].name>>

(***************************************************************************)
(* C15: when planning a worker succeeds the returned list holds exactly    *)
(* one allocation for each CRS eligible on the worker and none for any     *)
(* other CRS: its length is the number of eligible CRS and the names in it *)
(* are pairwise distinct.                                                  *)
(***************************************************************************)
C15_OnePerEligible ==
  Returned =>
    /\ {result[k].name : k \in 1..Len(result)} =
         {crs_configs[i].name : i \in Eligible(worker_name)}
    /\ Len(result) = Cardinality(Eligible(worker_name))
    /\ \A j, k \in 1..Len(result) : j # k => result[j].name # result[k].name
    /\ \A i \in 1..Len(crs_configs) :
         Cardinality({k \in 1..Len(result) : result[k].name = crs_configs[i].name}) =
           IF i \in Eligible(worker_name) THEN 1 ELSE 0

\* two CRS are eligible on the worker and a third one is not
C15_Witness ==
  /\ Returned
  /\ Cardinality(Eligible(worker_name)) = 2
  /\ Len(result) = 2
  /\ Len(crs_configs) > 2

(***************************************************************************)
(* C16: a worker on which no CRS is eligible yields an empty allocation    *)
(* list without any error, and the run goes on to the next worker without  *)
(* writing a file for it.                                                  *)
(***************************************************************************)
C16_EmptyWorkerSkipped ==
  [][ /\ (pc = "loop" /\ widx <= Len(workers) /\ Eligible(worker_name) = {}) =>
           /\ pc' = "returned"
           /\ result' = <<>>
           /\ rc' = -1
           /\ error' = "none"
           /\ UNCHANGED <<widx, outputs>>
      /\ (pc = "returned" /\ Eligible(worker_name) = {}) =>
           /\ pc' = "loop"
           /\ widx' = widx + 1
           /\ rc' = -1
           /\ error' = "none"
           /\ UNCHANGED outputs
    ]_vars

\* the first worker had no CRS and nothing was written for it; the second
\* worker is being planned
C16_Witness ==
  /\ pc = "validate"
  /\ widx = 2
  /\ Eligible(workers[1].name) = {}
  /\ files = <<>>
  /\ error = "none"

(***************************************************************************)
(* C17: workers are planned one at a time in the order of the              *)
(* configuration: the worker index moves by one, and only when the worker  *)
(* before has returned and been reported; within a worker the claims are   *)
(* validated one after the other in the order of the configuration, and an *)
(* auto record appears only when every claim has been validated; once the  *)
(* run has ended, by a fatal error or otherwise, nothing more is planned.  *)
(***************************************************************************)
C17_Sequential ==
  [][ /\ widx' # widx =>
           /\ widx' = widx + 1
           /\ pc \in {"main", "returned"}
           /\ pc' = "loop"
      /\ (pc = "loop" /\ pc' \in {"validate", "returned"}) =>
           /\ widx \in 1..Len(workers)
           /\ widx' = widx
           /\ Len(files) < widx
           /\ eidx' = 1
           /\ result' = <<>>
      /\ (pc = "validate" /\ eidx <= NumExplicit) =>
           /\ pc' \in {"validate", "exit"}
           /\ UNCHANGED <<widx, explicit_crs, auto_divide_crs>>
           /\ pc' = "validate" =>
                /\ eidx' = eidx + 1
                /\ Len(result') = eidx
                /\ result'[eidx].name = explicit_crs[eidx].name
                /\ SubSeq(result', 1, eidx - 1) = result
           /\ pc' = "exit" => rc' = 1 /\ UNCHANGED <<eidx, result>>
      /\ (Len(result') > Len(result) /\ result'[Len(result')].name \in AutoNames) =>
           /\ eidx > NumExplicit
           /\ Len(result) = NumExplicit
           /\ SubSeq(result', 1, NumExplicit) = result
      /\ pc = "exit" => UNCHANGED vars
    ]_vars

\* the first worker has been written; the second has had its claims
\* validated and its auto CRS are about to be divided
C17_Witness ==
  /\ pc = "validate"
  /\ widx = 2
  /\ Len(files) = 1
  /\ files[1].worker = workers[1].name
  /\ NumExplicit >= 1
  /\ eidx > NumExplicit
  /\ NumAuto >= 1

(***************************************************************************)
(* The plan of one worker as a function of the worker's name, the          *)
(* worker's own spec and the CRS entries handed to it, and of nothing      *)
(* else: a fold over the claims that threads the accumulators, then the    *)
(* division of what is left.                                               *)
(***************************************************************************)
RECURSIVE FoldClaims(_, _, _)
FoldClaims(claims, all_cpus, k) ==
  IF k = 0
  THEN [error |-> "none", used |-> {}, used_mb |-> 0, list |-> <<>>]
  ELSE LET acc == FoldClaims(claims, all_cpus, k - 1)
           cpus == parse_cpu_range(Get(claims[k].resources, "cpuset", DefaultCpuset))
           memory == parse_memory_mb(Get(claims[k].resources, "memory", DefaultMemory))
           check == ClaimCheck(ToSet(cpus.val), all_cpus, acc.used)
       IN  IF acc.error # "none" THEN acc
           ELSE IF ~cpus.ok \/ ~memory.ok THEN [acc EXCEPT !.error = "ValueError"]
           ELSE IF check # "ok" THEN [acc EXCEPT !.error = check]
           ELSE [error |-> "none",
                 used |-> acc.used \cup ToSet(cpus.val),
                 used_mb |-> acc.used_mb + memory.val,
                 list |-> Append(acc.list,
                                 ExplicitRecord(claims[k].name, cpus.val, memory.val))]

WorkerPlan(wname, wres, entries) ==
  LET all_cpus == ToSet(parse_cpu_range(Get(wres, "cpuset", DefaultCpuset)).val)
      total_mb == parse_memory_mb(Get(wres, "memory", DefaultMemory)).val
      claims == ExplicitCrs(wname, entries)
      autos == AutoDivideCrs(wname, entries)
      acc == FoldClaims(claims, all_cpus, Len(claims))
      remaining_cpus == RemainingCpus(all_cpus, acc.used)
      remaining_mb == RemainingMemory(total_mb, acc.used_mb)
      check == AutoCheck(remaining_cpus, remaining_mb, Len(autos))
  IN  IF acc.error # "none" THEN [error |-> acc.error, list |-> acc.list]
      ELSE IF autos = <<>> THEN [error |-> "none", list |-> acc.list]
      ELSE IF check # "ok" THEN [error |-> check, list |-> acc.list]
      ELSE [error |-> "none",
            list |-> acc.list \o AutoRecords(autos, remaining_cpus, remaining_mb)]

\* the entries of the configuration that are eligible on worker w
EligibleEntries(w) ==
  SelectSeq(crs_configs, LAMBDA e : w \in ToSet(Get(e.cfg, "workers", <<>>)))

C19_ExplicitOvercommitAccepted ==
  ( /\ ValidationOver
    /\ NumExplicit >= 1
    /\ NumAuto = 0
    /\ GoodPrefix(NumExplicit)
    /\ ClaimedMemoryMB(NumExplicit) > worker_total_memory_mb ) =>
    /\ error \notin PlanningErrors \cup {"ValueError"}
    /\ Len(result) = NumExplicit
    /\ \A k \in 1..NumExplicit :
         /\ result[k].name = explicit_crs[k].name
         /\ AllocMemoryMB(result[k]) = ClaimMemoryParsed(k).val

\* a list of two or more claims is returned whose memory exceeds the budget
C19_Witness ==
  /\ Returned
  /\ NumExplicit >= 2
  /\ NumAuto = 0
  /\ Len(result) = NumExplicit
  /\ SumMemoryMB(result) > worker_total_memory_mb

(***************************************************************************)
(* C20: when the configuration declares no workers the run ends with a     *)
(* configuration error and a non-zero result, before any worker is planned *)
(* and without a compose file being written.                               *)
(***************************************************************************)
C20_NoWorkersIsAnError ==
  (workers = <<>> /\ pc # "main") =>
    /\ pc = "exit"
    /\ rc = 1
    /\ error = "NoWorkers"
    /\ files = <<>>
    /\ total_crs_count = 0
    /\ widx = 0
    /\ eidx = 0
    /\ result = <<>>
    /\ explicit_crs = <<>>
    /\ auto_divide_crs = <<>>

\* the run over a configuration with CRS but without workers has ended
C20_Witness ==
  /\ workers = <<>>
  /\ pc = "exit"
  /\ rc = 1
  /\ \E i \in 1..Len(crs_configs) : CrsWorkers(i) # {}

(***************************************************************************)
(* The codecs on their own: a value is drawn, and the functions are        *)
(* applied to it one call after the other, as the round-trip tests of      *)
(* src/tests/test_render_compose.py do for the core specifications         *)
(* (parsed = parse_cpu_range(s), formatted = format_cpu_list(parsed),      *)
(* reparsed = parse_cpu_range(formatted)), and likewise format_memory and  *)
(* parse_memory_mb for an amount of memory. A ValueError ends the trip.    *)
(***************************************************************************)
\* the largest amount of memory, in MB, a round trip is run on
MaxMemoryMB == 2100

\* core specifications made of one token: a core or a range (also inverted)
CpuTokens ==
  {PyStr(a) : a \in 0..(MaxCore + 1)} \cup
  {Range(a, b) : a \in 0..(MaxCore + 1), b \in 0..(MaxCore + 1)}

\* the specifications the tests of TestParseCpuRange and TestRoundTrip use
TestedCpuSpecs ==
  { Range(0, 7),
    PyStr(5),
    Join(<<",">>, <<PyStr(0), PyStr(2), PyStr(4), PyStr(6)>>),
    Join(<<",">>, <<Range(0, 3), PyStr(8), Range(12, 15)>>),
    Join(<<",", " ">>, <<Range(0, 3), PyStr(8), Range(12, 15)>>),
    Join(<<",">>, <<Range(0, 3), Range(2, 5)>>),
    Join(<<",">>, <<PyStr(8), Range(0, 3), PyStr(5)>>),
    Range(0, 15),
    Range(4, 11) }

\* texts that are no core specification at all
MalformedCpuSpecs ==
  { <<>>, <<"a">>, <<"1", "-">>, <<"-", "1">>, <<"0", "-", "1", "-", "2">>,
    <<"0", ",", ",", "1">>, <<"1", ",">>, <<"0", "-", "x">> }

CpuSpecs ==
  CpuTokens \cup TestedCpuSpecs \cup MalformedCpuSpecs \cup
  {Join(sep, <<s, t>>) : s \in CpuTokens, t \in CpuTokens,
                         sep \in {<<",">>, <<",", " ">>}}

NoParse == [ok |-> FALSE, val |-> <<>>]

CodecInit ==
  /\ \/ test_pc = "cpu" /\ original \in CpuSpecs
     \/ test_pc = "mem" /\ original \in 0..MaxMemoryMB
  /\ parsed = NoParse
  /\ formatted = <<>>
  /\ reparsed = NoParse
  /\ resource_config = [workers |-> <<>>, crs |-> <<>>]
  /\ pc = "idle"
  /\ widx = 0
  /\ worker_all_cpus = {}
  /\ worker_total_memory_mb = 0
  /\ explicit_crs = <<>>
  /\ auto_divide_crs = <<>>
  /\ eidx = 0
  /\ used_cpus = {}
  /\ used_memory_mb = 0
  /\ result = <<>>
  /\ files = <<>>
  /\ total_crs_count = 0
  /\ rc = -1
  /\ error = "none"

program == <<resource_config, pc, widx, locals, outputs, rc, error>>

\* parsed = parse_cpu_range(original)
TestParseCpu ==
  /\ test_pc = "cpu"
  /\ parsed' = parse_cpu_range(original)
  /\ test_pc' = IF parsed'.ok THEN "cpu_parsed" ELSE "cpu_raised"
  /\ UNCHANGED <<program, original, formatted, reparsed>>

\* formatted = format_cpu_list(parsed)
TestFormatCpu ==
  /\ test_pc = "cpu_parsed"
  /\ formatted' = format_cpu_list(parsed.val)
  /\ test_pc' = "cpu_formatted"
  /\ UNCHANGED <<program, original, parsed, reparsed>>

\* reparsed = parse_cpu_range(formatted)
TestReparseCpu ==
  /\ test_pc = "cpu_formatted"
  /\ reparsed' = parse_cpu_range(formatted)
  /\ test_pc' = IF reparsed'.ok THEN "cpu_done" ELSE "cpu_reparse_raised"
  /\ UNCHANGED <<program, original, parsed, formatted>>

\* formatted = format_memory(original)
TestFormatMemory ==
  /\ test_pc = "mem"
  /\ formatted' = format_memory(original)
  /\ test_pc' = "mem_formatted"
  /\ UNCHANGED <<program, original, parsed, reparsed>>

\* reparsed = parse_memory_mb(formatted)
TestParseMemory ==
  /\ test_pc = "mem_formatted"
  /\ reparsed' = parse_memory_mb(formatted)
  /\ test_pc' = IF reparsed'.ok THEN "mem_done" ELSE "mem_raised"
  /\ UNCHANGED <<program, original, parsed, formatted>>

\* parsed = parse_memory_mb(str(original)): the amount written without a unit
TestParseBareMemory ==
  /\ test_pc = "mem"
  /\ parsed' = parse_memory_mb(PyStr(original))
  /\ test_pc' = IF parsed'.ok THEN "mem_bare_done" ELSE "mem_raised"
  /\ UNCHANGED <<program, original, formatted, reparsed>>

CodecNext ==
  \/ TestParseCpu
  \/ TestFormatCpu
  \/ TestReparseCpu
  \/ TestFormatMemory
  \/ TestParseMemory
  \/ TestParseBareMemory

CodecSpec == CodecInit /\ [][CodecNext]_vars

(***************************************************************************)
(* What a core specification is and which cores it names: a sequence of    *)
(* tokens separated by commas, whitespace around the commas ignored, each  *)
(* token a core or an inclusive range a-b with a <= b.                     *)
(***************************************************************************)
IsNat(t) == t # <<>> /\ \A i \in 1..Len(t) : IsDigit(t[i])

DashAt(t) == CHOOSE k \in 1..Len(t) : t[k] = "-"

IsRangeToken(t) ==
  /\ Cardinality({k \in 1..Len(t) : t[k] = "-"}) = 1
  /\ IsNat(SubSeq(t, 1, DashAt(t) - 1))
  /\ IsNat(SubSeq(t, DashAt(t) + 1, Len(t)))

RangeFrom(t) == NatOfDigits(SubSeq(t, 1, DashAt(t) - 1))

RangeTo(t) == NatOfDigits(SubSeq(t, DashAt(t) + 1, Len(t)))

IsInvertedRange(t) == IsRangeToken(t) /\ RangeFrom(t) > RangeTo(t)

IsCoreToken(t) == IsNat(t) \/ (IsRangeToken(t) /\ RangeFrom(t) <= RangeTo(t))

TokenCores(t) == IF IsNat(t) THEN {NatOfDigits(t)} ELSE RangeFrom(t)..RangeTo(t)

TokensOf(s) ==
  LET parts == SplitAt(s, ",") IN [i \in 1..Len(parts) |-> Strip(parts[i])]

IsCoreSpec(s) == \A i \in 1..Len(TokensOf(s)) : IsCoreToken(TokensOf(s)[i])

CoresOf(s) == Sorted(UNION {TokenCores(TokensOf(s)[i]) : i \in 1..Len(TokensOf(s))})

\* the first call of a round trip on a core specification has been made
CpuParseCalled ==
  test_pc \in {"cpu_raised", "cpu_parsed", "cpu_formatted", "cpu_done",
               "cpu_reparse_raised"}

(***************************************************************************)
(* C21: parse_cpu_range accepts a comma-separated sequence of tokens, each *)
(* a core or an inclusive range, whitespace around the commas ignored, and *)
(* returns the union of the tokens without duplicates in ascending order.  *)
(***************************************************************************)
C21_ParsesCommaLists ==
  (CpuParseCalled /\ IsCoreSpec(original)) =>
    parsed = [ok |-> TRUE, val |-> CoresOf(original)]

\* the core specification of claim k of the worker being planned
ClaimCpuSpec(k) == Get(explicit_crs[k].resources, "cpuset", DefaultCpuset)

\* the claims of the worker being planned that have been accepted so far
Accepted == 1..(IF Len(result) < NumExplicit THEN Len(result) ELSE NumExplicit)

(***************************************************************************)
(* C22: parsing a core specification fails when a token is neither a core  *)
(* nor a well-formed range, or when a range a-b has a > b: no claim whose  *)
(* specification is an inverted range, or otherwise no core specification, *)
(* is ever parsed to a core set and accepted.                              *)
(***************************************************************************)
C22_InvertedRangeRefused ==
  \A k \in Accepted :
    /\ ~IsInvertedRange(Strip(ClaimCpuSpec(k)))
    /\ IsCoreSpec(ClaimCpuSpec(k))

\* the cores of a list as decimal numbers separated by commas
CommaList(cores) == Join(<<",">>, [i \in 1..Len(cores) |-> PyStr(cores[i])])

(***************************************************************************)
(* C23: for a core specification that has been parsed, the text of         *)
(* format_cpu_list is the comma-separated list of its sorted cores without *)
(* duplicates and without ranges, and parsing that text again gives the    *)
(* list of the first parse.                                                *)
(***************************************************************************)
C23_CpuRoundTrip ==
  ( /\ test_pc \in {"cpu_formatted", "cpu_done", "cpu_reparse_raised"}
    /\ IsCoreSpec(original) ) =>
    /\ formatted = CommaList(CoresOf(original))
    /\ test_pc # "cpu_formatted" =>
         /\ test_pc = "cpu_done"
         /\ reparsed = parsed

\* the unit format_memory wrote, and the number in front of it
FormattedUnit == formatted[Len(formatted)]

FormattedNumber == NatOfDigits(SubSeq(formatted, 1, Len(formatted) - 1))

(***************************************************************************)
(* C24: for every amount mb >= 0 format_memory writes the number mb/1024   *)
(* followed by G exactly when mb is a positive multiple of 1024 and the    *)
(* number mb followed by M otherwise, parse_memory_mb of that text is mb   *)
(* again, and parse_memory_mb of mb written without a unit is mb.          *)
(***************************************************************************)
C24_MemoryRoundTrip ==
  /\ test_pc # "mem_raised"
  /\ test_pc \in {"mem_formatted", "mem_done"} =>
       /\ Len(formatted) >= 2
       /\ IsNat(SubSeq(formatted, 1, Len(formatted) - 1))
       /\ FormattedUnit \in {"G", "M"}
       /\ FormattedUnit = "G" <=> (original > 0 /\ original % 1024 = 0)
       /\ FormattedUnit = "G" => FormattedNumber * 1024 = original
       /\ FormattedUnit = "M" => FormattedNumber = original
  /\ test_pc = "mem_done" => reparsed = [ok |-> TRUE, val |-> original]
  /\ test_pc = "mem_bare_done" => parsed = [ok |-> TRUE, val |-> original]

\* 2048 MB went out as "2G" and came back as 2048
C24_Witness ==
  /\ test_pc = "mem_done"
  /\ original = 2048
  /\ formatted = <<"2", "G">>
  /\ reparsed.val = 2048

(***************************************************************************)
(* C25: a worker entry that omits cpuset has the pool {0,1,2,3} and one    *)
(* that omits memory has the budget 4096 MB; an explicit resource record   *)
(* that omits cpuset claims the cores {0,1,2,3} and one that omits memory  *)
(* claims 4096 MB.                                                         *)
(***************************************************************************)
C25_Defaults ==
  InCall =>
    /\ "cpuset" \notin DOMAIN workers[widx].res => worker_all_cpus = {0, 1, 2, 3}
    /\ "memory" \notin DOMAIN workers[widx].res => worker_total_memory_mb = 4096
    /\ \A k \in Accepted :
         /\ "cpuset" \notin DOMAIN explicit_crs[k].resources =>
              /\ AllocCpus(result[k]) = {0, 1, 2, 3}
              /\ {0, 1, 2, 3} \subseteq used_cpus
         /\ "memory" \notin DOMAIN explicit_crs[k].resources =>
              /\ AllocMemoryMB(result[k]) = 4096
              /\ used_memory_mb >= 4096

\* on a worker whose entry is empty a claim without memory has been
\* accepted with 4096 MB
C25_Witness ==
  /\ Returned
  /\ workers[widx].res = EmptyDict
  /\ worker_all_cpus = {0, 1, 2, 3}
  /\ worker_total_memory_mb = 4096
  /\ \E k \in Accepted :
       /\ "memory" \notin DOMAIN explicit_crs[k].resources
       /\ result[k].memory_limit = <<"4", "G">>

\* a claim without cpuset has been accepted with the cores 0 to 3
C25_WitnessCpuset ==
  /\ Returned
  /\ \E k \in Accepted :
       /\ "cpuset" \notin DOMAIN explicit_crs[k].resources
       /\ result[k].cpus = <<"0", ",", "1", ",", "2", ",", "3">>

(***************************************************************************)
(* C26: for each explicit claim the pool is checked before the overlap: a  *)
(* claim with a core outside the pool fails with the out-of-range error    *)
(* even when it also overlaps an accepted claim, a conflict error means    *)
(* the claim lies in the pool, and in both cases the used cores and the    *)
(* used memory are those of the claims accepted before.                    *)
(***************************************************************************)
C26_RangeBeforeOverlap ==
  (pc = "exit" /\ error \in {"OutOfRange", "Conflict"}) =>
    /\ eidx \in 1..NumExplicit
    /\ ~(ClaimCpuSet(eidx) \subseteq worker_all_cpus) => error = "OutOfRange"
    /\ error = "OutOfRange" => ~(ClaimCpuSet(eidx) \subseteq worker_all_cpus)
    /\ error = "Conflict" => ClaimCpuSet(eidx) \cap ClaimedCpus(eidx - 1) # {}
    /\ used_cpus = ClaimedCpus(eidx - 1)
    /\ used_memory_mb = ClaimedMemoryMB(eidx - 1)
    /\ Len(result) = eidx - 1

\* the failing claim has a core outside the pool and shares a core with an
\* accepted claim
C26_Witness ==
  /\ pc = "exit"
  /\ error = "OutOfRange"
  /\ eidx \in 2..NumExplicit
  /\ ~(ClaimCpuSet(eidx) \subseteq worker_all_cpus)
  /\ ClaimCpuSet(eidx) \cap used_cpus # {}
  /\ used_memory_mb > 0

\* the names of the workers of S among the first n, in the order of the
\* configuration
RECURSIVE WorkersInOrder(_, _)
WorkersInOrder(S, n) ==
  IF n = 0 THEN <<>>
  ELSE WorkersInOrder(S, n - 1) \o (IF n \in S THEN <<workers[n].name>> ELSE <<>>)

\* the errors the planner itself reports
FatalErrors == PlanningErrors \cup {"NoWorkers", "ValueError"}

(***************************************************************************)
(* C27: a run of main on a configuration that raises no fatal error writes *)
(* exactly one compose file for each worker with at least one eligible     *)
(* CRS, none for the others, and returns success; reporting the plan of a  *)
(* worker never fails on the record of an explicit claim.                  *)
(***************************************************************************)
C27_OneFilePerPlannedWorker ==
  (pc = "exit" /\ error \notin FatalErrors) =>
    /\ error = "none"
    /\ rc = 0
    /\ [k \in 1..Len(files) |-> files[k].worker] =
         WorkersInOrder({j \in 1..Len(workers) : Eligible(workers[j].name) # {}},
                        Len(workers))

(***************************************************************************)
(* C28: every record get_crs_for_worker returns, from an explicit claim or *)
(* from auto-division, has the fields name, cpuset, memory_limit and       *)
(* suffix, the suffix being 'runner'.                                      *)
(***************************************************************************)
C28_SameFields ==
  \A k \in 1..Len(result) :
    /\ DOMAIN result[k] = {"name", "cpuset", "memory_limit", "suffix"}
    /\ result[k].suffix = "runner"

(***************************************************************************)
(* C29: when the list returned for a worker holds at least one auto        *)
(* allocation, the core sets of all its allocations together are the       *)
(* worker's pool and their memory limits add up to the worker's budget; so *)
(* a returned list whose explicit allocations exceed the budget holds no   *)
(* auto allocation.                                                        *)
(***************************************************************************)
C29_FullUtilisation ==
  Returned =>
    /\ NumAuto >= 1 =>
         /\ UnionCpus(result) = worker_all_cpus
         /\ SumMemoryMB(result) = worker_total_memory_mb
    /\ SumMemoryMB(SubSeq(result, 1, NumExplicit)) > worker_total_memory_mb =>
         NumAuto = 0

\* claims and auto CRS share a worker, and the auto share is not a whole
\* multiple of the number of auto CRS
C29_Witness ==
  /\ Returned
  /\ NumExplicit >= 1
  /\ NumAuto = 2
  /\ UnionCpus(result) = worker_all_cpus
  /\ (worker_total_memory_mb - used_memory_mb) % 2 = 1

(***************************************************************************)
(* C30: auto-division is balanced up to the remainder: all auto CRS but    *)
(* the last get the same number of cores and the same memory, and the last *)
(* gets at least as much as each of them and at most n-1 cores and n-1 MB  *)
(* more, n being the number of auto CRS.                                   *)
(***************************************************************************)
C30_Balanced ==
  (Returned /\ NumAuto >= 1) =>
    LET n == NumAuto
        cores(i) == Len(AllocCpuList(AutoAllocs[i]))
        mem(i) == AllocMemoryMB(AutoAllocs[i])
    IN  /\ Len(AutoAllocs) = n
        /\ \A i, j \in 1..(n - 1) : cores(i) = cores(j) /\ mem(i) = mem(j)
        /\ \A i \in 1..(n - 1) :
             /\ cores(i) <= cores(n)
             /\ cores(n) - cores(i) <= n - 1
             /\ mem(i) <= mem(n)
             /\ mem(n) - mem(i) <= n - 1

\* three auto CRS, the last with more cores and more memory than the others
C30_Witness ==
  /\ Returned
  /\ NumAuto = 3
  /\ Len(AllocCpuList(AutoAllocs[3])) > Len(AllocCpuList(AutoAllocs[1]))
  /\ AllocMemoryMB(AutoAllocs[3]) > AllocMemoryMB(AutoAllocs[1])

====
